---------------------------- MODULE Spec2Model ----------------------------
(***************************************************************************)
(* Model of the Refactoring Swarm: BaseAgent.invoke (src/src/agents/base.py)*)
(* and RefactoringSwarm / main (src/src/swarm/orchestrator.py, src/main.py).*)
(*                                                                         *)
(* Texts (Python str) are sequences of tokens (TLA+ strings); a substring  *)
(* test is a contiguous-subsequence test, so every literal the code        *)
(* searches for ("FAILED", "429", "quota", the code-fence markers,         *)
(* "test_", "__init__") is one token or a run of tokens.  The token        *)
(* "<fence>" stands for the run of three backquotes.                       *)
(***************************************************************************)
EXTENDS Integers, Sequences, FiniteSets, TLC

\* ------------------------------------------------------------- bounds
\* Largest max_iterations a direct call of run() is given.
MaxIterations == 2
\* Largest number of .py files under the target directory.
MaxFiles == 2
\* Largest number of .py files under the target directory main() is run on
\* (main() always runs the full DefaultMaxIterations).
MainMaxFiles == 1
\* Largest number of .py files under the target directory of a run() whose
\* model-call attempts are counted.
CallsMaxFiles == 1
\* Largest number of tokens of a response text given to the extraction.
MaxTextLen == 4

\* ------------------------------------------------- program constants
\* base.py:85  max_retries = 3
max_retries == 3
\* orchestrator.py:259  max_iterations: int = 10 (what main() gets)
DefaultMaxIterations == 10

\* ------------------------------------------------------ str helpers
\* sub occurs in s at 0-based offset i
OccursAt(s, sub, i) ==
    /\ i >= 0
    /\ i + Len(sub) <= Len(s)
    /\ \A k \in 1..Len(sub) : s[i + k] = sub[k]

\* str.find(sub, start): lowest 0-based index >= start, or -1
Find(s, sub, start) ==
    LET hits == { i \in start..Len(s) : OccursAt(s, sub, i) }
    IN  IF hits = {} THEN -1
        ELSE CHOOSE i \in hits : \A j \in hits : i <= j

\* sub in s
Contains(s, sub) == Find(s, sub, 0) # -1

\* s[a:b] for 0 <= a, 0 <= b (0-based, end exclusive)
Slice(s, a, b) ==
    LET hi == IF b > Len(s) THEN Len(s) ELSE b
    IN  IF a >= hi THEN <<>> ELSE SubSeq(s, a + 1, hi)

Whitespace == {" ", "\n"}

\* str.strip()
RECURSIVE LStrip(_)
LStrip(s) ==
    IF s # <<>> /\ Head(s) \in Whitespace THEN LStrip(Tail(s)) ELSE s

RECURSIVE RStrip(_)
RStrip(s) ==
    IF s # <<>> /\ s[Len(s)] \in Whitespace
    THEN RStrip(SubSeq(s, 1, Len(s) - 1)) ELSE s

Strip(s) == RStrip(LStrip(s))

\* str.lower() on the tokens that have an upper-case form here
LowerTok(t) ==
    CASE t = "Quota" -> "quota"
      [] t = "QUOTA" -> "quota"
      [] OTHER -> t

Lower(s) == [i \in 1..Len(s) |-> LowerTok(s[i])]

\* str.replace(old, new): every non-overlapping occurrence, left to right
RECURSIVE Replace(_, _, _)
Replace(s, old, new) ==
    IF old = <<>> \/ Len(s) < Len(old) THEN s
    ELSE IF OccursAt(s, old, 0)
         THEN new \o Replace(SubSeq(s, Len(old) + 1, Len(s)), old, new)
         ELSE <<Head(s)>> \o Replace(Tail(s), old, new)


\* ---------------------------------------------------------- literals
NoneValue == <<"<None>">>
FAILED == <<"FAILED">>
INITIALIZED == <<"INITIALIZED">>
SCANNED == <<"SCANNED">>
SCAN_FAILED == <<"SCAN_", "FAILED">>
AUDITED == <<"AUDITED">>
AUDIT_SKIPPED == <<"AUDIT_", "SKIPPED">>
AUDIT_FAILED == <<"AUDIT_", "FAILED">>
FIXED == <<"FIXED">>
FIX_SKIPPED == <<"FIX_", "SKIPPED">>
GENERATED == <<"GENERATED">>
GENERATE_SKIPPED == <<"GENERATE_", "SKIPPED">>
COMPLETED == <<"COMPLETED">>

\* the markers searched for by the fix and generate stages: three backquotes
\* followed by "python", and three backquotes
OpenMarker == <<"<fence>", "python">>
CloseMarker == <<"<fence>">>

\* ------------------------------------------------ model-call outcomes
\* Error texts str(e) of a failed self.llm.invoke(messages).
RateLimitMsgs == { <<"Error code: ", "429">>, <<"Quota", " exceeded">> }
OtherMsgs == { <<"connection reset">>, <<"42", "9 items">> }
\* Response texts (response.content) of a successful call.
RespBlock == <<"Here:", "\n", "<fence>", "python", "\n", "code", "\n", "<fence>", "\n", "done">>
RespNoBlock == <<"nothing to change">>
RespOpenOnly == <<"<fence>", "python", "\n", "code">>
Responses == { RespBlock, RespNoBlock, RespOpenOnly }

Outcome(ok, text) == [ok |-> ok, text |-> text]
\* every outcome one model call can have
AllOutcomes ==
    { Outcome(TRUE, r) : r \in Responses }
    \cup { Outcome(FALSE, m) : m \in RateLimitMsgs \cup OtherMsgs }
RespAudit == <<"## AUDIT REPORT">>
\* lines 36-41: the ValueError the llm property raises when MISTRAL_API_KEY is
\* not set; it is raised at line 92, before the client is built or called
KeyMissingMsg == <<"MISTRAL_API_KEY non definie. ", "Verifiez votre fichier .env">>
KeyMissing == Outcome(FALSE, KeyMissingMsg)
\* what evaluating self.llm.invoke(messages) can end as, given the credential
LlmOutcomes(key, O) == IF key THEN O ELSE {KeyMissing}
\* the outcomes the model calls of the pipeline's agents are driven with
StageOutcomes(name) ==
    IF name = "Auditor"
    THEN { Outcome(TRUE, RespAudit), Outcome(FALSE, <<"Error code: ", "429">>) }
    ELSE { Outcome(TRUE, RespBlock), Outcome(TRUE, RespNoBlock),
           Outcome(FALSE, <<"Error code: ", "429">>) }

\* ------------------------------------------------- BaseAgent.invoke
\* "429" in error_msg or "quota" in error_msg.lower()
IsRateLimit(error_msg) ==
    Contains(error_msg, <<"429">>) \/ Contains(Lower(error_msg), <<"quota">>)

\* Backoff starting at one second
Backoff_FromOne(retry_count) == 2 ^ (retry_count - 1)

\* 2 ** retry_count
Backoff(retry_count) == 2 ^ retry_count

\* log_experiment(...): one record appended to the interaction log
log_experiment(log, agent_name, output_response, status) ==
    Append(log, [agent_name |-> agent_name,
                 output_response |-> output_response,
                 status |-> status])

\* the locals of invoke on entry (lines 85-88); calls, slept and log record
\* what the call did: the outcomes of the evaluations of line 92 (model calls,
\* or the llm property raising KeyMissing), the sleeps, the log records
InvokeEntry(name) ==
    [name |-> name, retry_count |-> 0, output_response |-> NoneValue,
     status |-> "FAILURE", calls |-> <<>>, slept |-> <<>>, log |-> <<>>,
     at |-> "loop"]

\* InvokeAttempt retrying after every error, rate limit or not
InvokeAttempt_RetriesAll(loc, o) ==
    LET called == [loc EXCEPT !.calls = Append(@, o)]
    IN  IF o.ok
        THEN [called EXCEPT !.output_response = o.text,
                            !.status = "SUCCESS", !.at = "log"]
        ELSE LET rc == loc.retry_count + 1
             IN  IF rc < max_retries
                 THEN [called EXCEPT !.retry_count = rc,
                                     !.slept = Append(@, 2 ^ rc),
                                     !.at = "loop"]
                 ELSE [called EXCEPT !.retry_count = rc,
                                     !.output_response = <<"ERROR: ">> \o o.text,
                                     !.status = "FAILURE", !.at = "log"]

\* one pass of the while body (lines 90-112) whose model call ended as o
InvokeAttempt(loc, o) ==
    LET called == [loc EXCEPT !.calls = Append(@, o)]
    IN  IF o.ok
        THEN [called EXCEPT !.output_response = o.text,
                            !.status = "SUCCESS", !.at = "log"]
        ELSE LET error_msg == o.text
                 limited == IsRateLimit(error_msg)
                 rc == IF limited THEN loc.retry_count + 1
                       ELSE loc.retry_count
             IN  IF limited /\ rc < max_retries
                 THEN [called EXCEPT !.retry_count = rc,
                                     !.slept = Append(@, Backoff(rc)),
                                     !.at = "loop"]
                 ELSE [called EXCEPT !.retry_count = rc,
                                     !.output_response = <<"ERROR: ">> \o error_msg,
                                     !.status = "FAILURE", !.at = "log"]

\* InvokeLog writing no record for a failed call
InvokeLog_SkipsFailures(loc) ==
    IF loc.status = "FAILURE" THEN [loc EXCEPT !.at = "raised"]
    ELSE [loc EXCEPT !.log = Append(@, [agent_name |-> loc.name,
                                        output_response |-> loc.output_response,
                                        status |-> loc.status]),
                     !.at = "returned"]

\* InvokeLog without the raise of lines 126-127: the text is returned
InvokeLog_NeverRaises(loc) ==
    [loc EXCEPT !.log = Append(@, [agent_name |-> loc.name,
                                   output_response |-> loc.output_response,
                                   status |-> loc.status]),
                !.at = "returned"]

\* lines 114-129: the log record, then raise RuntimeError(output_response)
\* or return output_response
InvokeLog(loc) ==
    [loc EXCEPT !.log = log_experiment(@, loc.name, loc.output_response, loc.status),
                !.at = IF loc.status = "FAILURE" THEN "raised" ELSE "returned"]

\* invoke run to its end on the outcomes outs of its model calls
RECURSIVE InvokeFrom(_, _)
InvokeFrom(loc, outs) ==
    IF loc.at = "loop" /\ loc.retry_count < max_retries /\ outs # <<>>
    THEN InvokeFrom(InvokeAttempt(loc, Head(outs)), Tail(outs))
    ELSE IF loc.at = "log" \/ (loc.at = "loop" /\ loc.retry_count >= max_retries)
         THEN InvokeLog(loc)
         ELSE loc

Invoke(name, outs) == InvokeFrom(InvokeEntry(name), outs)

\* the outcome sequences over O that one invoke consumes exactly
InvokeRuns(O) ==
    LET seqs == UNION { [1..n -> O] : n \in 1..max_retries }
    IN  { s \in seqs :
            LET r == Invoke("x", s)
            IN  r.at \in {"returned", "raised"} /\ Len(r.calls) = Len(s) }

\* what a stage sees of one agent call: whether invoke returned or raised,
\* and the text returned or carried by the RuntimeError
StageResults(name) ==
    { [at |-> r.at, output_response |-> r.output_response] :
        r \in { Invoke(name, outs) : outs \in InvokeRuns(StageOutcomes(name)) } }
AuditorResults == StageResults("Auditor")
FixerResults == StageResults("Fixer")
GeneratorResults == StageResults("Generator")
\* the one result of an agent call made without the credential
NoKeyResults(name) ==
    LET r == Invoke(name, <<KeyMissing>>)
    IN  { [at |-> r.at, output_response |-> r.output_response] }
\* the results of one agent call, each with the number of model-call attempts
\* its invoke made
CountedResults(name, key) ==
    { [res |-> [at |-> r.at, output_response |-> r.output_response],
       n |-> Len(r.calls)] :
        r \in { Invoke(name, outs) :
                  outs \in InvokeRuns(LlmOutcomes(key, StageOutcomes(name))) } }
CountedAuditor == [key \in BOOLEAN |-> CountedResults("Auditor", key)]
CountedFixer == [key \in BOOLEAN |-> CountedResults("Fixer", key)]
CountedGenerator == [key \in BOOLEAN |-> CountedResults("Generator", key)]
\* results whose attempts are not counted
Uncounted(results) == { [res |-> r, n |-> 0] : r \in results }
\* self.auditor / self.fixer / self.generator called with or without it
ResultsOf(name, key) ==
    IF ~key THEN NoKeyResults(name)
    ELSE CASE name = "Auditor" -> AuditorResults
           [] name = "Fixer" -> FixerResults
           [] OTHER -> GeneratorResults


\* ------------------------------------------------------- environment
\* args.target_dir
target_dir == <<"proj">>
\* the .py files os.walk can find under target_dir, in walk order
AllPaths ==
    << <<"proj", "/", "a", ".py">>,
       <<"proj", "/", "pkg", "/", "a", ".py">>,
       <<"proj", "/", "test_", "a", ".py">>,
       <<"proj", "/", "pkg", "/", "__init__", ".py">>,
       <<"proj", "/", "la", "test_", "run", ".py">>,
       <<"proj", "/", "proj", "/", "a", ".py">> >>

\* the elements of seq at the indices in keep, in order
RECURSIVE Pick(_, _, _)
Pick(seq, keep, i) ==
    IF i > Len(seq) THEN <<>>
    ELSE (IF i \in keep THEN <<seq[i]>> ELSE <<>>) \o Pick(seq, keep, i + 1)

\* the directory contents the runs start from: the first n paths, or any one
Disks ==
    { SubSeq(AllPaths, 1, n) : n \in 0..MaxFiles }
    \cup { << AllPaths[k] >> : k \in 1..Len(AllPaths) }

\* os.path.basename(file_path)
RECURSIVE Basename(_)
Basename(path) ==
    IF Contains(path, <<"/">>)
    THEN Basename(SubSeq(path, Find(path, <<"/">>, 0) + 2, Len(path)))
    ELSE path

\* --------------------------------------------------- lines of text
DirNotFoundLine == <<"Directory not found: ">> \o target_dir
ReadFailedLine(path) == <<"Failed to read ">> \o path \o <<": ", "OSError">>
AuditFailedLine(e) == <<"Audit failed: ">> \o e
FixFailedLine(path, e) == <<"Fix failed for ">> \o path \o <<": ">> \o e
GenFailedLine(path, e) ==
    <<"Test generation failed for ">> \o path \o <<": ">> \o e
FixedLine(path) == <<"Fixed: ">> \o path
SavedLine(path) == <<"Saved to: ">> \o path
PipelineFailedLine == <<"Pipeline failed before tests could pass.">>
MaxIterLine(n) ==
    <<"Reached max iterations (", ToString(n), ") without passing tests.">>
NoFilesReport == <<"No files to audit">>
OSErrorText == <<"OSError">>

\* ------------------------------------------------------------- state
VARIABLES
    entry,          \* "main": main() was started; "run": run() called directly
    dir_exists,     \* os.path.exists(target_dir)
    disk,           \* the .py files under target_dir, in walk order
    unreadable,     \* the indices of the files of disk that open() fails on
    max_iterations, \* run's parameter
    api_key,        \* os.getenv("MISTRAL_API_KEY") is set
    pc,             \* where main/run/the graph stands
    iteration,      \* run's loop variable
    state,          \* latest_state / the graph's SwarmState
    tests_passed,   \* run's local of line 293
    test_results,   \* the results of the test runs of this run(), in order
    loop,           \* fix/generate locals: file index, fixes_applied/tests_generated
    ops,            \* what the current pipeline execution did so far
    exit_code,      \* <<>> until sys.exit(c), then <<c>>
    inv,            \* the locals of one BaseAgent.invoke (SpecInvoke)
    ext,            \* one code-block extraction and write (SpecExtract)
    attempts        \* the model-call attempts of this iteration (SpecCalls)

vars == << entry, dir_exists, disk, unreadable, max_iterations, api_key, pc, iteration, state,
           tests_passed, test_results, loop, ops, exit_code, inv, ext,
           attempts >>

env == << entry, dir_exists, disk, unreadable, max_iterations, api_key >>

\* lines 273-282
InitialState ==
    [target_dir |-> target_dir, files |-> <<>>, audit_report |-> <<>>,
     fixes_applied |-> <<>>, tests_generated |-> <<>>,
     current_phase |-> INITIALIZED, errors |-> <<>>, tests_output |-> <<>>]

NoReport == [files |-> -1, fixes |-> -1, tests |-> -1, errors |-> -1]
\* ops: the files each agent was called for, the stages entered, the phase
\* each stage returned, the files written, the files whose loop body ended in
\* the except branch, the files whose Fixer call returned, and the counts the
\* report stage showed
NoOps ==
    [auditor |-> <<>>, fixer |-> <<>>, generator |-> <<>>,
     stages |-> <<>>, phases |-> <<>>, writes |-> <<>>, failed |-> <<>>,
     fixer_ok |-> <<>>, report |-> NoReport]
NoLoop == [i |-> 0, acc |-> <<>>]
\* ext: the response text, whether lines 141-149 ran, and the texts written
ExtractEntry(text) == [text |-> text, at |-> "start", written |-> <<>>]
NoExtract == ExtractEntry(<<>>)

\* PhaseFailed holding of every phase
PhaseFailed_Always(st) == TRUE

\* "FAILED" in state.get("current_phase", "")
PhaseFailed(st) == Contains(st.current_phase, FAILED)

\* an agent call on behalf of file_path, recorded in ops
Called(o, agent, file_path) == [o EXCEPT ![agent] = Append(@, file_path)]

Entered(o, stage) == [o EXCEPT !.stages = Append(@, stage)]
Returned(o, st) == [o EXCEPT !.phases = Append(@, st.current_phase)]


\* ------------------------------------------------------------- Init
Agents == {"Auditor", "Fixer", "Generator"}

Init ==
    /\ entry \in {"main", "run"}
    /\ dir_exists \in BOOLEAN
    /\ disk \in (IF dir_exists THEN Disks ELSE {<<>>})
    /\ entry = "main" => Len(disk) <= MainMaxFiles
    /\ unreadable \in SUBSET (1..Len(disk))
    /\ max_iterations \in (IF entry = "main" THEN {DefaultMaxIterations}
                           ELSE 0..MaxIterations)
    /\ api_key \in BOOLEAN
    /\ pc = (IF entry = "main" THEN "main" ELSE "run")
    /\ iteration = 0
    /\ state = InitialState
    /\ tests_passed = FALSE
    /\ test_results = <<>>
    /\ loop = NoLoop
    /\ ops = NoOps
    /\ exit_code = <<>>
    /\ inv = InvokeEntry("none")
    /\ ext = NoExtract
    /\ attempts = 0

\* ------------------------------------------------------------- main
\* main.py:20-34: the target directory must exist
MainStart ==
    /\ pc = "main"
    /\ IF dir_exists
       THEN pc' = "construct" /\ exit_code' = exit_code
       ELSE pc' = "exit_no_dir" /\ exit_code' = <<1>>
    /\ UNCHANGED << env, iteration, state, tests_passed, test_results, loop,
                    ops, inv, ext, attempts >>

\* main.py:38 RefactoringSwarm(model_name=...): the agents are built and the
\* graph is compiled by the graph library; an exception it raises is caught at
\* main.py:48 and ends in sys.exit(1)
Construct ==
    /\ pc = "construct"
    /\ \E built \in BOOLEAN :
         IF built
         THEN pc' = "run" /\ exit_code' = exit_code
         ELSE pc' = "exit_fatal" /\ exit_code' = <<1>>
    /\ UNCHANGED << env, iteration, state, tests_passed, test_results, loop,
                    ops, inv, ext, attempts >>

\* ExitCodeOf not looking at the errors
ExitCodeOf_IgnoresErrors(result) == 0

\* main.py:41-46
ExitCodeOf(result) == IF result.errors # <<>> THEN 1 ELSE 0

MainExit ==
    /\ pc = "returned"
    /\ entry = "main"
    /\ exit_code' = <<ExitCodeOf(state)>>
    /\ pc' = "exit_done"
    /\ UNCHANGED << env, iteration, state, tests_passed, test_results, loop,
                    ops, inv, ext, attempts >>

\* -------------------------------------------------------------- run
\* orchestrator.py:273-284
Run ==
    /\ pc = "run"
    /\ state' = InitialState
    /\ iteration' = 0
    /\ pc' = "loop"
    /\ UNCHANGED << env, tests_passed, test_results, loop, ops, exit_code, inv, ext, attempts >>

\* HasNext for range(1, max_iterations + 2): one iteration more
HasNext_OneMore(it, n) == it < n + 1

\* HasNext for range(1, max_iterations): one iteration short
HasNext_OneShort(it, n) == it + 1 < n

\* range(1, max_iterations + 1) has a next value after it
HasNext(it, n) == it < n

\* orchestrator.py:286-290 and 307-312: the head of the for loop, and its
\* else clause when the range is exhausted
ForLoop ==
    /\ pc = "loop"
    /\ IF HasNext(iteration, max_iterations)
       THEN /\ iteration' = iteration + 1
            /\ ops' = NoOps
            /\ pc' = "scan"
            /\ state' = state
            /\ attempts' = 0
       ELSE /\ state' = [state EXCEPT
                           !.errors = Append(@, MaxIterLine(max_iterations))]
            /\ pc' = "returned"
            /\ UNCHANGED << iteration, ops, attempts >>
    /\ UNCHANGED << env, tests_passed, test_results, loop, exit_code, inv, ext >>


\* ------------------------------------------------------------ stages
\* ScanState reading the directory only while files is still empty
ScanState_KeepsFiles(st, exists, dk, unread_at) ==
    IF st.files # <<>>
    THEN [st EXCEPT !.errors = <<>>, !.current_phase = SCANNED]
    ELSE [st EXCEPT !.files = dk, !.errors = <<>>, !.current_phase = SCANNED]

\* _scan_node, lines 75-96: files and errors start empty in every execution
ScanState(st, exists, dk, unread_at) ==
    IF ~exists
    THEN [st EXCEPT !.files = <<>>,
                    !.errors = <<DirNotFoundLine>>,
                    !.current_phase = SCAN_FAILED]
    ELSE LET unread == Pick(dk, unread_at, 1)
         IN  [st EXCEPT !.files = Pick(dk, (1..Len(dk)) \ unread_at, 1),
                        !.errors =
                            [k \in 1..Len(unread) |-> ReadFailedLine(unread[k])],
                        !.current_phase = SCANNED]

ScanNode ==
    /\ pc = "scan"
    /\ state' = ScanState(state, dir_exists, disk, unreadable)
    /\ ops' = Returned(Entered(ops, "scan"), state')
    /\ pc' = "audit"
    /\ UNCHANGED << env, iteration, tests_passed, test_results, loop, exit_code, inv, ext, attempts >>

\* AuditState whose except branch starts errors afresh
AuditState_ResetsErrors(st, res) ==
    IF res.at = "returned"
    THEN [st EXCEPT !.audit_report = res.output_response,
                    !.current_phase = AUDITED]
    ELSE LET error_msg == AuditFailedLine(res.output_response)
         IN  [st EXCEPT !.audit_report = error_msg,
                        !.errors = <<error_msg>>,
                        !.current_phase = AUDIT_FAILED]

\* _audit_node, lines 98-116, with res the auditor's invoke
AuditState(st, res) ==
    IF res.at = "returned"
    THEN [st EXCEPT !.audit_report = res.output_response,
                    !.current_phase = AUDITED]
    ELSE LET error_msg == AuditFailedLine(res.output_response)
         IN  [st EXCEPT !.audit_report = error_msg,
                        !.errors = Append(@, error_msg),
                        !.current_phase = AUDIT_FAILED]

\* AuditSkips never skipping
AuditSkips_Never(st) == FALSE

\* line 100: not state["files"]
AuditSkips(st) == st.files = <<>>

\* _audit_node, lines 98-116, for the results runs its Auditor call can have
AuditWith(runs) ==
    /\ pc = "audit"
    /\ IF AuditSkips(state)
       THEN /\ state' = [state EXCEPT !.audit_report = NoFilesReport,
                                      !.current_phase = AUDIT_SKIPPED]
            /\ ops' = Returned(Entered(ops, "audit"), state')
            /\ attempts' = attempts
       ELSE \E run \in runs :
                  /\ state' = AuditState(state, run.res)
                  /\ ops' = Returned(Called(Entered(ops, "audit"), "auditor",
                                             <<"*">>), state')
                  /\ attempts' = attempts + run.n
    /\ pc' = "fix"
    /\ UNCHANGED << env, iteration, tests_passed, test_results, loop, exit_code, inv, ext >>

AuditNode == AuditWith(Uncounted(ResultsOf("Auditor", api_key)))

\* lines 142-146 and 178-182: the block between the first opening marker and
\* the next closing marker, when code_end > code_start
ExtractBlock(text) ==
    IF Contains(text, OpenMarker)
    THEN LET code_start == Find(text, OpenMarker, 0) + Len(OpenMarker)
             code_end == Find(text, CloseMarker, code_start)
         IN  IF code_end > code_start
             THEN [found |-> TRUE,
                   text |-> Strip(Slice(text, code_start, code_end))]
             ELSE [found |-> FALSE, text |-> <<>>]
    ELSE [found |-> FALSE, text |-> <<>>]

\* the outcomes of os.makedirs and open/write for one file
IoOutcomes == {"ok", "makedirs fails", "open fails"}

\* line 138
SandboxPath(st, file_path) == Replace(file_path, st.target_dir, <<"sandbox">>)

\* lines 120-121: the fix stage is skipped after a failure
FixSkips(st) == PhaseFailed(st)

\* _fix_node, lines 118-124
FixNode ==
    /\ pc = "fix"
    /\ IF FixSkips(state)
       THEN /\ state' = [state EXCEPT !.fixes_applied = <<>>,
                                      !.current_phase = FIX_SKIPPED]
            /\ ops' = Returned(Entered(ops, "fix"), state')
            /\ loop' = loop
            /\ pc' = "generate"
       ELSE /\ loop' = [i |-> 1, acc |-> <<>>]
            /\ state' = state
            /\ ops' = Entered(ops, "fix")
            /\ pc' = "fix_loop"
    /\ UNCHANGED << env, iteration, tests_passed, test_results, exit_code, inv, ext, attempts >>

\* FixExcept swallowing the exception (except: pass)
FixExcept_Swallows(st, acc, file_path, e) ==
    [acc |-> acc, writes |-> <<>>,
     failed |-> << [stage |-> "fix", file |-> file_path] >>,
     errors |-> st.errors]

\* lines 151-152: the except branch, for the exception text e
FixExcept(st, acc, file_path, e) ==
    [acc |-> acc, writes |-> <<>>,
     failed |-> << [stage |-> "fix", file |-> file_path] >>,
     errors |-> Append(st.errors, FixFailedLine(file_path, e))]

\* FixBody recording "Fixed:" only together with "Saved to:"
FixBody_FixedOnWrite(st, acc, file_path, res, io) ==
    IF res.at = "raised"
    THEN FixExcept(st, acc, file_path, res.output_response)
    ELSE LET sandbox_path == SandboxPath(st, file_path)
             block == ExtractBlock(res.output_response)
         IN  IF io = "makedirs fails"
             THEN FixExcept(st, acc, file_path, OSErrorText)
             ELSE IF ~block.found
             THEN [acc |-> acc, writes |-> <<>>, failed |-> <<>>,
                   errors |-> st.errors]
             ELSE IF io = "open fails"
             THEN FixExcept(st, acc, file_path, OSErrorText)
             ELSE [acc |-> acc \o << FixedLine(file_path), SavedLine(sandbox_path) >>,
                   writes |-> << [stage |-> "fix", path |-> sandbox_path,
                                  text |-> block.text] >>,
                   failed |-> <<>>,
                   errors |-> st.errors]

\* one pass of the loop body, lines 127-152: fixes_applied (acc) and errors
\* after it, and what it wrote
FixBody(st, acc, file_path, res, io) ==
    IF res.at = "raised"
    THEN FixExcept(st, acc, file_path, res.output_response)
    ELSE LET fixed_code == res.output_response
             acc1 == Append(acc, FixedLine(file_path))
             sandbox_path == SandboxPath(st, file_path)
             block == ExtractBlock(fixed_code)
         IN  IF io = "makedirs fails"
             THEN FixExcept(st, acc1, file_path, OSErrorText)
             ELSE IF ~block.found
             THEN [acc |-> acc1, writes |-> <<>>, failed |-> <<>>,
                   errors |-> st.errors]
             ELSE IF io = "open fails"
             THEN FixExcept(st, acc1, file_path, OSErrorText)
             ELSE [acc |-> Append(acc1, SavedLine(sandbox_path)),
                   writes |-> << [stage |-> "fix", path |-> sandbox_path,
                                  text |-> block.text] >>,
                   failed |-> <<>>,
                   errors |-> st.errors]

\* one pass of the fix loop for the results runs its Fixer call can have
FixWith(runs) ==
    /\ pc = "fix_loop"
    /\ loop.i <= Len(state.files)
    /\ \E run \in runs, io \in IoOutcomes :
         LET b == FixBody(state, loop.acc, state.files[loop.i], run.res, io)
         IN  /\ state' = [state EXCEPT !.errors = b.errors]
             /\ loop' = [i |-> loop.i + 1, acc |-> b.acc]
             /\ ops' = [Called(ops, "fixer", state.files[loop.i])
                          EXCEPT !.writes = @ \o b.writes,
                                 !.failed = @ \o b.failed,
                                 !.fixer_ok = @ \o
                                    (IF run.res.at = "returned"
                                     THEN << state.files[loop.i] >> ELSE <<>>)]
             /\ attempts' = attempts + run.n
    /\ pc' = "fix_loop"
    /\ UNCHANGED << env, iteration, tests_passed, test_results, exit_code, inv, ext >>

FixFile == FixWith(Uncounted(ResultsOf("Fixer", api_key)))

\* lines 154-155
FixReturn ==
    /\ pc = "fix_loop"
    /\ loop.i > Len(state.files)
    /\ state' = [state EXCEPT !.fixes_applied = loop.acc,
                              !.current_phase = FIXED]
    /\ ops' = Returned(ops, state')
    /\ loop' = NoLoop
    /\ pc' = "generate"
    /\ UNCHANGED << env, iteration, tests_passed, test_results, exit_code, inv, ext, attempts >>


\* line 166: files the generate stage passes over
GenerateSkipsFile(file_path) ==
    Contains(file_path, <<"__init__">>) \/ Contains(file_path, <<"test_">>)

\* lines 173-174
TestPath(file_path) ==
    <<"sandbox", "/", "tests", "/">> \o (<<"test_">> \o Basename(file_path))

\* lines 159-160: the generate stage is skipped after a failure
GenerateSkips(st) == PhaseFailed(st)

\* _generate_node, lines 157-163
GenerateNode ==
    /\ pc = "generate"
    /\ IF GenerateSkips(state)
       THEN /\ state' = [state EXCEPT !.tests_generated = <<>>,
                                      !.current_phase = GENERATE_SKIPPED]
            /\ ops' = Returned(Entered(ops, "generate"), state')
            /\ loop' = loop
            /\ pc' = "report"
       ELSE /\ loop' = [i |-> 1, acc |-> <<>>]
            /\ state' = state
            /\ ops' = Entered(ops, "generate")
            /\ pc' = "generate_loop"
    /\ UNCHANGED << env, iteration, tests_passed, test_results, exit_code, inv, ext, attempts >>

\* lines 187-188: the except branch, for the exception text e
GenerateExcept(st, acc, file_path, e) ==
    [acc |-> acc, writes |-> <<>>,
     failed |-> << [stage |-> "generate", file |-> file_path] >>,
     errors |-> Append(st.errors, GenFailedLine(file_path, e))]

\* one pass of the loop body for a file that is not passed over, lines
\* 169-188: tests_generated (acc) and errors after it, and what it wrote
GenerateBody(st, acc, file_path, res, io) ==
    IF res.at = "raised"
    THEN GenerateExcept(st, acc, file_path, res.output_response)
    ELSE LET tests == res.output_response
             test_path == TestPath(file_path)
             block == ExtractBlock(tests)
         IN  IF io = "makedirs fails"
             THEN GenerateExcept(st, acc, file_path, OSErrorText)
             ELSE IF ~block.found
             THEN [acc |-> acc, writes |-> <<>>, failed |-> <<>>,
                   errors |-> st.errors]
             ELSE IF io = "open fails"
             THEN GenerateExcept(st, acc, file_path, OSErrorText)
             ELSE [acc |-> Append(acc, test_path),
                   writes |-> << [stage |-> "generate", path |-> test_path,
                                  text |-> block.text] >>,
                   failed |-> <<>>,
                   errors |-> st.errors]

\* one pass of the generate loop for the results runs its Generator call can
\* have
GenerateWith(runs) ==
    /\ pc = "generate_loop"
    /\ loop.i <= Len(state.files)
    /\ IF GenerateSkipsFile(state.files[loop.i])
       THEN /\ loop' = [loop EXCEPT !.i = @ + 1]
            /\ UNCHANGED << state, ops, attempts >>
       ELSE \E run \in runs, io \in IoOutcomes :
              LET b == GenerateBody(state, loop.acc, state.files[loop.i],
                                    run.res, io)
              IN  /\ state' = [state EXCEPT !.errors = b.errors]
                  /\ loop' = [i |-> loop.i + 1, acc |-> b.acc]
                  /\ ops' = [Called(ops, "generator", state.files[loop.i])
                               EXCEPT !.writes = @ \o b.writes,
                                      !.failed = @ \o b.failed]
                  /\ attempts' = attempts + run.n
    /\ pc' = "generate_loop"
    /\ UNCHANGED << env, iteration, tests_passed, test_results, exit_code, inv, ext >>

GenerateFile == GenerateWith(Uncounted(ResultsOf("Generator", api_key)))

\* lines 190-191
GenerateReturn ==
    /\ pc = "generate_loop"
    /\ loop.i > Len(state.files)
    /\ state' = [state EXCEPT !.tests_generated = loop.acc,
                              !.current_phase = GENERATED]
    /\ ops' = Returned(ops, state')
    /\ loop' = NoLoop
    /\ pc' = "report"
    /\ UNCHANGED << env, iteration, tests_passed, test_results, exit_code, inv, ext, attempts >>

\* ReportNode leaving current_phase as the generate stage set it
ReportNode_KeepsPhase ==
    /\ pc = "report"
    /\ state' = state
    /\ ops' = [Returned(Entered(ops, "report"), state') EXCEPT
                 !.report = [files |-> Len(state.files),
                             fixes |-> Len(state.fixes_applied),
                             tests |-> Len(state.tests_generated),
                             errors |-> Len(state.errors)]]
    /\ pc' = "tests"
    /\ UNCHANGED << env, iteration, tests_passed, test_results, loop,
                    exit_code, inv, ext, attempts >>

\* _report_node, lines 193-234: the counts shown, then COMPLETED
ReportNode ==
    /\ pc = "report"
    /\ state' = [state EXCEPT !.current_phase = COMPLETED]
    /\ ops' = [Returned(Entered(ops, "report"), state') EXCEPT
                 !.report = [files |-> Len(state.files),
                             fixes |-> Len(state.fixes_applied),
                             tests |-> Len(state.tests_generated),
                             errors |-> Len(state.errors)]]
    /\ pc' = "tests"
    /\ UNCHANGED << env, iteration, tests_passed, test_results, loop,
                    exit_code, inv, ext, attempts >>

\* _run_tests, lines 236-257: (passed, output) for what the runner did
RunnerOutcomes == {"exit 0", "exit 1", "cannot start"}
TestsPassed(outcome) == outcome = "exit 0"
TestsOutput(outcome) ==
    IF outcome = "cannot start" THEN <<"Test runner error: ", "OSError">>
    ELSE <<"pytest output, ", outcome>>

\* BreakOnPass without the break of line 298
BreakOnPass_Never(passed) == FALSE

\* line 296: the loop is left when the tests passed
BreakOnPass(passed) == passed

\* run, lines 293-305: the test run and what the loop does with it
RunTests ==
    /\ pc = "tests"
    /\ \E outcome \in RunnerOutcomes :
         LET passed == TestsPassed(outcome)
             tested == [state EXCEPT !.tests_output = TestsOutput(outcome)]
         IN  /\ tests_passed' = passed
             /\ test_results' = Append(test_results, passed)
             /\ IF BreakOnPass(passed)
                THEN state' = tested /\ pc' = "returned"
                ELSE IF PhaseFailed(tested)
                THEN /\ state' = [tested EXCEPT
                                    !.errors = Append(@, PipelineFailedLine)]
                     /\ pc' = "returned"
                ELSE state' = tested /\ pc' = "loop"
    /\ UNCHANGED << env, iteration, loop, ops, exit_code, inv, ext, attempts >>

Next ==
    \/ MainStart
    \/ Construct
    \/ Run
    \/ ForLoop
    \/ ScanNode
    \/ AuditNode
    \/ FixNode
    \/ FixFile
    \/ FixReturn
    \/ GenerateNode
    \/ GenerateFile
    \/ GenerateReturn
    \/ ReportNode
    \/ RunTests
    \/ MainExit

Spec == Init /\ [][Next]_vars

\* ------------------- run() over a directory that changes between scans
\* run() is called on an existing directory whose files can all be read
InitRescan ==
    /\ Init
    /\ entry = "run"
    /\ dir_exists
    /\ api_key
    /\ unreadable = {}

\* between the test run of one iteration and the scan of the next, .py files
\* appear under or disappear from the target directory (os.walk of lines
\* 85-88 reads the directory as it is when the scan runs)
DiskChanges ==
    /\ pc = "loop"
    /\ iteration >= 1
    /\ HasNext(iteration, max_iterations)
    /\ disk' \in { d \in Disks : d # disk /\ d # <<>> }
    /\ UNCHANGED << entry, dir_exists, unreadable, max_iterations, api_key, pc,
                    iteration, state, tests_passed, test_results, loop, ops,
                    exit_code, inv, ext, attempts >>

NextRescan ==
    \/ Run
    \/ ForLoop
    \/ ScanNode
    \/ AuditNode
    \/ FixNode
    \/ FixFile
    \/ FixReturn
    \/ GenerateNode
    \/ GenerateFile
    \/ GenerateReturn
    \/ ReportNode
    \/ RunTests
    \/ DiskChanges

SpecRescan == InitRescan /\ [][NextRescan]_vars

\* --------------- run() with the model-call attempts of each agent call counted
\* run() is called on an existing directory holding the first files of
\* AllPaths, all of which can be read
InitCalls ==
    /\ Init
    /\ entry = "run"
    /\ dir_exists
    /\ unreadable = {}
    /\ disk \in { SubSeq(AllPaths, 1, n) : n \in 0..CallsMaxFiles }

AuditNodeCounted == AuditWith(CountedAuditor[api_key])
FixFileCounted == FixWith(CountedFixer[api_key])
GenerateFileCounted == GenerateWith(CountedGenerator[api_key])

NextCalls ==
    \/ Run
    \/ ForLoop
    \/ ScanNode
    \/ AuditNodeCounted
    \/ FixNode
    \/ FixFileCounted
    \/ FixReturn
    \/ GenerateNode
    \/ GenerateFileCounted
    \/ GenerateReturn
    \/ ReportNode
    \/ RunTests

\* every model call and every test run returns: a step that can be taken is
\* taken
SpecCalls == InitCalls /\ [][NextCalls]_vars /\ WF_vars(NextCalls)

\* ---------------------------------------- one call of BaseAgent.invoke
InitInvoke ==
    /\ entry = "invoke"
    /\ dir_exists = TRUE
    /\ disk = <<>>
    /\ unreadable = {}
    /\ max_iterations = 0
    /\ api_key \in BOOLEAN
    /\ pc = "invoke"
    /\ iteration = 0
    /\ state = InitialState
    /\ tests_passed = FALSE
    /\ test_results = <<>>
    /\ loop = NoLoop
    /\ ops = NoOps
    /\ exit_code = <<>>
    /\ inv \in { InvokeEntry(a) : a \in Agents }
    /\ ext = NoExtract
    /\ attempts = 0

\* line 90: the while condition
LoopRuns(loc) == loc.at = "loop" /\ loc.retry_count < max_retries

\* lines 90-112: one model call and what the loop body does with its outcome
LlmCall ==
    /\ pc = "invoke"
    /\ LoopRuns(inv)
    /\ \E o \in LlmOutcomes(api_key, AllOutcomes) : inv' = InvokeAttempt(inv, o)
    /\ UNCHANGED << env, pc, iteration, state, tests_passed, test_results,
                    loop, ops, exit_code, ext, attempts >>

\* lines 114-129: the log record, then return or raise
InvokeEnd ==
    /\ pc = "invoke"
    /\ inv.at \in {"loop", "log"}
    /\ ~LoopRuns(inv)
    /\ inv' = InvokeLog(inv)
    /\ UNCHANGED << env, pc, iteration, state, tests_passed, test_results,
                    loop, ops, exit_code, ext, attempts >>

NextInvoke == LlmCall \/ InvokeEnd

SpecInvoke == InitInvoke /\ [][NextInvoke]_vars

\* ------------------- one code-block extraction (lines 141-149, 177-185)
\* the tokens response texts are made of
TextAlphabet == {"<fence>", "python", "\n", "x"}
\* every response text of at most MaxTextLen tokens
Texts == UNION { [1..n -> TextAlphabet] : n \in 0..MaxTextLen }

InitExtract ==
    /\ entry = "extract"
    /\ dir_exists = TRUE
    /\ disk = <<>>
    /\ unreadable = {}
    /\ max_iterations = 0
    /\ api_key = TRUE
    /\ pc = "extract"
    /\ iteration = 0
    /\ state = InitialState
    /\ tests_passed = FALSE
    /\ test_results = <<>>
    /\ loop = NoLoop
    /\ ops = NoOps
    /\ exit_code = <<>>
    /\ inv = InvokeEntry("none")
    /\ ext \in { ExtractEntry(t) : t \in Texts }
    /\ attempts = 0

\* lines 142-149: the block is extracted and, when there is one, written
ExtractAndWrite ==
    /\ pc = "extract"
    /\ ext.at = "start"
    /\ LET block == ExtractBlock(ext.text)
       IN  ext' = [ext EXCEPT !.at = "done",
                              !.written = IF block.found THEN <<block.text>>
                                          ELSE <<>>]
    /\ UNCHANGED << env, pc, iteration, state, tests_passed, test_results,
                    loop, ops, exit_code, inv, attempts >>

NextExtract == ExtractAndWrite

SpecExtract == InitExtract /\ [][NextExtract]_vars


\* =================================================================
\* Properties
\* =================================================================
Last(seq) == seq[Len(seq)]
IsPrefix(a, b) == Len(a) <= Len(b) /\ SubSeq(b, 1, Len(a)) = a
Count(seq, x) == Cardinality({ k \in 1..Len(seq) : seq[k] = x })
\* line starts with the tokens of start
StartsWith(line, start) == IsPrefix(start, line)
CountStarting(seq, start) ==
    Cardinality({ k \in 1..Len(seq) : StartsWith(seq[k], start) })
SomePhaseFailed == \E k \in 1..Len(ops.phases) : Contains(ops.phases[k], FAILED)
Exited == pc \in {"exit_no_dir", "exit_fatal", "exit_done"}

\* C1: the loop of run stops on the first iteration whose test run passes:
\* the step that records a passing test run leaves the loop, and from then on
\* no stage is entered, no test is run and no iteration is started, whatever
\* budget remains.
C1_StopsOnFirstPass ==
    [][ /\ tests_passed' => pc' \in {"returned", "exit_done"}
        /\ tests_passed => UNCHANGED << iteration, ops, test_results, state >>
      ]_vars

\* C1 witness: the tests passed on iteration 2 of a budget of 10 and run has
\* returned.
C1_Witness ==
    /\ pc = "returned"
    /\ tests_passed
    /\ iteration = 2
    /\ max_iterations = DefaultMaxIterations
    /\ Len(test_results) = 2

\* C2 (as claimed): when a stage of the iteration set a phase containing
\* "FAILED" and the iteration's test run did not pass, run has appended
\* "Pipeline failed before tests could pass." and has stopped.
C2_StopsAfterFailedPhase ==
    ( /\ pc \in {"loop", "returned"}
      /\ test_results # <<>>
      /\ ~Last(test_results)
      /\ SomePhaseFailed )
    => ( /\ pc = "returned"
         /\ state.errors # <<>>
         /\ Last(state.errors) = PipelineFailedLine )

\* C3: the "Reached max iterations" line is in errors, once, exactly when run
\* has returned after max_iterations test runs none of which passed; it is
\* never there while run is still looping, and run returns in either case.
C3_MaxIterationsError ==
    LET n == Count(state.errors, MaxIterLine(max_iterations))
        exhausted == /\ Len(test_results) = max_iterations
                     /\ \A k \in 1..Len(test_results) : ~test_results[k]
    IN  /\ n <= 1
        /\ pc \in {"returned", "exit_done"} => (n = 1 <=> exhausted)
        /\ pc \notin {"returned", "exit_done"} => n = 0

\* C3 witness: a run of two iterations whose tests never passed has returned
\* with the line.
C3_Witness ==
    /\ pc = "returned"
    /\ max_iterations = 2
    /\ test_results = <<FALSE, FALSE>>
    /\ Last(state.errors) = MaxIterLine(2)

\* the claim's rate-limit error: the text contains "429" or, in any case of
\* the letters, "quota"
C4_RateLimited(o) ==
    /\ ~o.ok
    /\ \E k \in 1..Len(o.text) : o.text[k] \in {"429", "quota", "Quota", "QUOTA"}

\* C4: one invoke makes at most 3 model calls, and every call but the last
\* failed with a rate-limit error: a success or a failure of another kind is
\* never followed by another call.
C4_BoundedRetry ==
    /\ Len(inv.calls) <= 3
    /\ \A k \in 1..(Len(inv.calls) - 1) : C4_RateLimited(inv.calls[k])
    /\ (inv.calls # <<>> /\ ~C4_RateLimited(Last(inv.calls))) => inv.at # "loop"

\* C4 witness: three rate-limit failures, and the call has ended.
C4_Witness ==
    /\ Len(inv.calls) = 3
    /\ \A k \in 1..3 : C4_RateLimited(inv.calls[k])
    /\ inv.at = "raised"

\* C5: invoke returns exactly when its last model call succeeded, and then
\* returns that call's text; otherwise it raises, carrying "ERROR: " and the
\* text of the last error.
C5_ReturnsOrRaises ==
    /\ inv.at = "returned" =>
         /\ inv.calls # <<>>
         /\ Last(inv.calls).ok
         /\ inv.output_response = Last(inv.calls).text
    /\ inv.at = "raised" =>
         /\ inv.calls # <<>>
         /\ \A k \in 1..Len(inv.calls) : ~inv.calls[k].ok
         /\ inv.output_response = <<"ERROR: ">> \o Last(inv.calls).text

\* C5 witness: a non-rate-limit error after one rate-limit error was raised.
C5_Witness ==
    /\ inv.at = "raised"
    /\ Len(inv.calls) = 2
    /\ C4_RateLimited(inv.calls[1])
    /\ ~C4_RateLimited(inv.calls[2])

\* C6 (as claimed): when invoke has returned or raised, the interaction log
\* holds one record per model call it made.
C6_OneRecordPerAttempt ==
    inv.at \in {"returned", "raised"} => Len(inv.log) = Len(inv.calls)

\* C7 (as claimed): once a stage of a pipeline execution has set a phase
\* containing "FAILED", that execution makes no Fixer call, no Generator call
\* and writes no file.
C7_DownstreamSkips ==
    SomePhaseFailed =>
        /\ ops.fixer = <<>>
        /\ ops.generator = <<>>
        /\ ops.writes = <<>>

\* C8 (as claimed): errors is append-only during one run(): every step leaves
\* the old errors as a prefix of the new.
C8_ErrorsAppendOnly ==
    [][ IsPrefix(state.errors, state.errors') ]_vars


\* the files of seq the generate stage does not pass over
RECURSIVE Eligible(_)
Eligible(seq) ==
    IF seq = <<>> THEN <<>>
    ELSE (IF GenerateSkipsFile(Head(seq)) THEN <<>> ELSE <<Head(seq)>>)
         \o Eligible(Tail(seq))

FixFailedLines(p) ==
    CountStarting(state.errors, <<"Fix failed for ">> \o p \o <<": ">>)
GenFailedLines(p) ==
    CountStarting(state.errors, <<"Test generation failed for ">> \o p \o <<": ">>)
FailedIn(stage, p) == Count(ops.failed, [stage |-> stage, file |-> p])

\* C9: a fix stage that is not skipped ends in FIXED having called the Fixer
\* once for every file, in order, and errors holds one "Fix failed for <file>"
\* line for each file whose pass failed and none for the others; likewise a
\* generate stage that is not skipped ends in GENERATED having called the
\* Generator once for every eligible file, with one "Test generation failed
\* for <file>" line per failed file.
C9_PerFileFailures ==
    /\ (Len(ops.phases) >= 3 /\ ~Contains(ops.phases[2], FAILED)) =>
         /\ ops.phases[3] = FIXED
         /\ ops.fixer = state.files
         /\ \A k \in 1..Len(state.files) :
              /\ FailedIn("fix", state.files[k]) <= 1
              /\ FixFailedLines(state.files[k]) = FailedIn("fix", state.files[k])
    /\ (Len(ops.phases) >= 4 /\ ~Contains(ops.phases[3], FAILED)) =>
         /\ ops.phases[4] = GENERATED
         /\ ops.generator = Eligible(state.files)
         /\ \A k \in 1..Len(state.files) :
              /\ FailedIn("generate", state.files[k]) <= 1
              /\ GenFailedLines(state.files[k])
                   = FailedIn("generate", state.files[k])

\* C9 witness: of two files the first failed in fix and in generate, and the
\* second was still fixed, saved and given a test file.
C9_Witness ==
    /\ Len(state.files) = 2
    /\ Len(ops.phases) >= 4
    /\ ops.phases[3] = FIXED
    /\ ops.phases[4] = GENERATED
    /\ ops.failed = << [stage |-> "fix", file |-> state.files[1]],
                       [stage |-> "generate", file |-> state.files[1]] >>
    /\ SavedLine(SandboxPath(state, state.files[2])) = Last(state.fixes_applied)
    /\ state.tests_generated = << TestPath(state.files[2]) >>
    /\ Len(state.errors) = 2

\* C10: main exits with code 0 exactly when run() returned and the errors of
\* its result are empty; it exits with code 1 when they are not empty, and
\* when an exception escaped the construction of the swarm; tests that passed
\* do not matter.
C10_ExitCode ==
    /\ exit_code = <<0>> <=> (pc = "exit_done" /\ state.errors = <<>>)
    /\ (pc = "exit_done" /\ state.errors # <<>>) => exit_code = <<1>>
    /\ pc = "exit_fatal" => exit_code = <<1>>
    /\ Exited <=> exit_code # <<>>

\* C10 witness: the tests passed, errors were recorded, and main exited 1.
C10_Witness ==
    /\ pc = "exit_done"
    /\ tests_passed
    /\ state.errors # <<>>
    /\ exit_code = <<1>>


\* C11 (as claimed): without the credential the system fails fast: no stage
\* of the pipeline is entered, no test run is made, and the missing credential
\* is never recorded as an "Audit failed" line among the errors of a run that
\* goes on.
C11_FailsFastWithoutKey ==
    ~api_key =>
        /\ ops.stages = <<>>
        /\ test_results = <<>>
        /\ CountStarting(state.errors, <<"Audit failed: ">>) = 0

\* a pipeline execution has run its scan stage and that found no file
ScannedNoFiles == Len(ops.phases) >= 1 /\ state.files = <<>>

\* C12: when scan finds no file, the audit stage of that execution skips with
\* AUDIT_SKIPPED and the report "No files to audit", no agent is called, the
\* report stage shows 0 files, and run goes on to return: it is never stuck.
C12_NoFiles ==
    ScannedNoFiles =>
        /\ ops.auditor = <<>> /\ ops.fixer = <<>> /\ ops.generator = <<>>
        /\ ops.writes = <<>>
        /\ Len(ops.phases) >= 2 =>
             /\ ops.phases[2] = AUDIT_SKIPPED
             /\ state.audit_report = NoFilesReport
        /\ Len(ops.phases) >= 5 => ops.report.files = 0
        /\ pc \in {"returned", "exit_done"} \/ ENABLED Next

\* C12 witness: the second iteration over a directory whose only file cannot
\* be read has reported 0 files.
C12_Witness ==
    /\ dir_exists /\ Len(disk) = 1 /\ unreadable = {1}
    /\ iteration = 2
    /\ ScannedNoFiles
    /\ Len(ops.phases) = 5
    /\ ops.phases[2] = AUDIT_SKIPPED
    /\ ops.report.files = 0

\* the claim's well-formed block of text: the 0-based offsets of the first
\* opening marker and of the next closing marker after it, -1 when absent
C13_Open(text) == Find(text, OpenMarker, 0)
C13_Close(text) ==
    IF C13_Open(text) = -1 THEN -1
    ELSE Find(text, CloseMarker, C13_Open(text) + Len(OpenMarker))

\* C13 (as claimed): when the text has an opening marker and a closing marker
\* after it, exactly the trimmed text between them is written, also when that
\* text is empty; otherwise nothing is written.
C13_ExtractsTrimmedBlock ==
    ext.at = "done" =>
        IF C13_Open(ext.text) # -1 /\ C13_Close(ext.text) # -1
        THEN ext.written =
               << Strip(Slice(ext.text, C13_Open(ext.text) + Len(OpenMarker),
                              C13_Close(ext.text))) >>
        ELSE ext.written = <<>>

\* C14: a test run never makes run raise and a failing test run by itself
\* adds no line to errors: the step that makes the test run goes back to the
\* loop or returns, and leaves errors alone unless a phase of the execution
\* had failed, when it appends the "Pipeline failed" line and returns; the
\* head of the loop appends nothing but the "Reached max iterations" line,
\* and then returns.
C14_FailingRunIsNoError ==
    [][ /\ pc = "tests" =>
             /\ pc' \in {"loop", "returned"}
             /\ \/ state'.errors = state.errors
                \/ /\ state'.errors = Append(state.errors, PipelineFailedLine)
                   /\ SomePhaseFailed
                   /\ pc' = "returned"
        /\ pc = "loop" =>
             \/ state'.errors = state.errors
             \/ /\ state'.errors = Append(state.errors, MaxIterLine(max_iterations))
                /\ pc' = "returned"
      ]_vars

\* C14 witness: the runner could not be started in iteration 1; run is back at
\* the head of its loop with no error recorded.
C14_Witness ==
    /\ pc = "loop"
    /\ test_results = <<FALSE>>
    /\ state.tests_output = TestsOutput("cannot start")
    /\ state.errors = <<>>
    /\ max_iterations = 2

\* the five stages in the order of the graph's edges
C15_Order == <<"scan", "audit", "fix", "generate", "report">>
\* where run stands while it is inside graph.invoke
C15_InGraph == {"scan", "audit", "fix", "fix_loop", "generate", "generate_loop", "report"}

\* C15: in every iteration the stages entered so far are the first stages of
\* scan, audit, fix, generate, report, each entered once; a stage is entered
\* only when the stage before it has returned; the test run is made when all
\* five have run, once per iteration; the report stage has then run, whatever
\* the earlier stages did, and has left the phase COMPLETED.
C15_FiveStagesInOrder ==
    /\ IsPrefix(ops.stages, C15_Order)
    /\ Len(ops.phases) <= Len(ops.stages)
    /\ Len(ops.stages) <= Len(ops.phases) + 1
    /\ Len(ops.stages) > Len(ops.phases) => pc \in {"fix_loop", "generate_loop"}
    /\ pc \in C15_InGraph =>
         /\ iteration >= 1
         /\ Len(test_results) = iteration - 1
         /\ Len(ops.stages) < 5
    /\ pc = "tests" =>
         /\ ops.stages = C15_Order
         /\ Len(ops.phases) = 5
         /\ ops.phases[5] = COMPLETED
         /\ state.current_phase = COMPLETED
         /\ Len(test_results) = iteration - 1
    /\ (pc \in {"loop", "returned", "exit_done"} /\ iteration >= 1) =>
         /\ ops.stages = C15_Order
         /\ ops.phases[5] = COMPLETED
         /\ state.current_phase = COMPLETED
         /\ Len(test_results) = iteration

\* C15 witness: in iteration 2 the audit failed, and the report stage has
\* still run and set COMPLETED; the test run comes next.
C15_Witness ==
    /\ pc = "tests"
    /\ iteration = 2
    /\ ops.stages = C15_Order
    /\ ops.phases[2] = AUDIT_FAILED
    /\ ops.phases[5] = COMPLETED

\* the fields of the state the audit stage has no business with
C16_Rest(st) ==
    << st.target_dir, st.files, st.fixes_applied, st.tests_generated,
       st.tests_output >>
\* the audit step called the Auditor once for a non-empty file set and not
\* at all for an empty one, and no other step calls it
C16_OneCall ==
    /\ pc = "audit" =>
         ops'.auditor = (IF state.files # <<>> THEN << <<"*">> >> ELSE <<>>)
    /\ pc # "audit" => (ops'.auditor = ops.auditor \/ ops'.auditor = <<>>)
\* the audit step succeeded: the report is stored, the phase is AUDITED
C16_Success ==
    (pc = "audit" /\ state'.current_phase = AUDITED) =>
        /\ state.files # <<>>
        /\ \E o \in StageOutcomes("Auditor") :
              o.ok /\ state'.audit_report = o.text
        /\ state'.errors = state.errors
        /\ C16_Rest(state') = C16_Rest(state)
\* the audit step failed: one "Audit failed: ..." line is appended
C16_Failure ==
    (pc = "audit" /\ state'.current_phase = AUDIT_FAILED) =>
        /\ state.files # <<>>
        /\ Len(state'.errors) = Len(state.errors) + 1
        /\ IsPrefix(state.errors, state'.errors)
        /\ StartsWith(Last(state'.errors), <<"Audit failed: ">>)
        /\ C16_Rest(state') = C16_Rest(state)
C16_Phases ==
    pc = "audit" =>
        state'.current_phase \in {AUDITED, AUDIT_FAILED, AUDIT_SKIPPED}

\* C16 (as claimed): one Auditor call per execution over a non-empty file
\* set, none over an empty one; on success the report is stored and the phase
\* is AUDITED; on an exception the phase is AUDIT_FAILED, one "Audit failed"
\* line is appended to errors, and every other field, audit_report included,
\* is as it was.
C16_AuditOnce_Claimed ==
    [][ /\ C16_OneCall /\ C16_Success /\ C16_Failure /\ C16_Phases
        /\ (pc = "audit" /\ state'.current_phase = AUDIT_FAILED) =>
             state'.audit_report = state.audit_report
      ]_vars

\* C16 (amended): as claimed, except that on an exception audit_report does
\* not stay as it was: it is set to the "Audit failed: ..." line appended to
\* errors.
C16_AuditOnce ==
    [][ /\ C16_OneCall /\ C16_Success /\ C16_Failure /\ C16_Phases
        /\ (pc = "audit" /\ state'.current_phase = AUDIT_FAILED) =>
             state'.audit_report = Last(state'.errors)
      ]_vars

\* C16 witness: in iteration 2 the one Auditor call over two files raised;
\* the line is the last of errors and is the audit report.
C16_Witness ==
    /\ pc = "fix"
    /\ iteration = 2
    /\ Len(state.files) = 2
    /\ ops.auditor = << <<"*">> >>
    /\ state.current_phase = AUDIT_FAILED
    /\ CountStarting(state.errors, <<"Audit failed: ">>) = 1
    /\ state.audit_report = Last(state.errors)

\* the claim's test on the file's name: an __init__ file, or a name that
\* starts with test_
C17_InitOrTestName(file_path) ==
    Head(Basename(file_path)) \in {"__init__", "test_"}

\* C17 (as claimed): a generate stage that is not skipped has called the
\* Generator for exactly the files whose name is not an __init__ file and does
\* not start with test_; "test_" elsewhere in the path does not matter.
C17_SelectsByName ==
    (Len(ops.phases) >= 4 /\ ops.phases[4] = GENERATED) =>
        \A k \in 1..Len(state.files) :
            (Count(ops.generator, state.files[k]) = 1)
                <=> ~C17_InitOrTestName(state.files[k])

\* file_path with its leading target_dir replaced by "sandbox"
C18_Mirror(file_path) ==
    <<"sandbox">> \o SubSeq(file_path, Len(target_dir) + 1, Len(file_path))

\* C18 (as claimed): every file the fix stage writes is the mirror, under
\* "sandbox", of one of the scanned files: that file's path with its leading
\* target_dir replaced and the rest unchanged; it is never a file of the target
\* directory.
C18_WritesUnderSandbox ==
    \A i \in 1..Len(ops.writes) :
        ops.writes[i].stage = "fix" =>
            /\ \E k \in 1..Len(state.files) :
                  /\ IsPrefix(target_dir, state.files[k])
                  /\ ops.writes[i].path = C18_Mirror(state.files[k])
            /\ \A k \in 1..Len(disk) : ops.writes[i].path # disk[k]

RECURSIVE SumSeq(_)
SumSeq(seq) == IF seq = <<>> THEN 0 ELSE Head(seq) + SumSeq(Tail(seq))

\* C19: invoke sleeps 2 seconds after a rate-limit failure of its first
\* attempt and 4 seconds after one of its second attempt, and at no other
\* time: not after a success, not after a failure of another kind, not after
\* the third attempt; in all it sleeps at most 6 seconds.
C19_Backoff ==
    /\ IsPrefix(inv.slept, <<2, 4>>)
    /\ Len(inv.slept) =
         Cardinality({ k \in 1..Len(inv.calls) :
                         k < 3 /\ C4_RateLimited(inv.calls[k]) })
    /\ SumSeq(inv.slept) <= 6

\* C19 witness: two rate-limit failures, then a success: invoke slept 2 and 4
\* seconds and returned.
C19_Witness ==
    /\ inv.at = "returned"
    /\ Len(inv.calls) = 3
    /\ inv.slept = <<2, 4>>

C21_ListsAppendOnly ==
    [][ /\ IsPrefix(state.fixes_applied, state'.fixes_applied)
        /\ IsPrefix(state.tests_generated, state'.tests_generated)
      ]_vars

\* C22 (as claimed): a fix or generate stage entered with a phase containing
\* "FAILED" returns the state it received: all eight fields are as they were.
C22_SkipPassesThrough ==
    [][ (pc \in {"fix", "generate"} /\ Contains(state.current_phase, FAILED))
          => state' = state
      ]_vars

\* the caps of C23: at most max_iterations pipeline executions and test runs,
\* at most 3 * (1 + 2 * |files|) model-call attempts in an iteration, and for
\* max_iterations = 0 the initial state plus the max-iterations line
C23_Caps ==
    /\ iteration <= max_iterations
    /\ Len(test_results) <= iteration
    /\ attempts <= 3 * (1 + 2 * Len(state.files))
    /\ (max_iterations = 0 /\ pc = "returned") =>
         /\ state = [InitialState EXCEPT
                       !.errors = << <<"Reached max iterations (", "0",
                                       ") without passing tests.">> >>]
         /\ ops = NoOps
         /\ test_results = <<>>

\* C23: when every model call and every test run returns, run() returns, and
\* until then it stays within the caps.
C23_TerminatesWithinCaps == []C23_Caps /\ <>(pc = "returned")

\* C23 witness: run has returned after two iterations over one file, the
\* second of which made 9 attempts: three by the Auditor, three by the Fixer
\* and three by the Generator.
C23_Witness ==
    /\ pc = "returned"
    /\ iteration = 2
    /\ Len(state.files) = 1
    /\ attempts = 9

C26_FixRan == Len(ops.phases) >= 3 /\ ops.phases[3] = <<"FIXED">>
\* the paths the fix stage wrote
C26_Written ==
    { ops.writes[i].path : i \in { j \in 1..Len(ops.writes) :
                                      ops.writes[j].stage = "fix" } }
C26_IsSaved(line) == StartsWith(line, <<"Saved to: ">>)

\* C26: after a fix stage that is not skipped, fixes_applied holds
\* "Fixed: <file>" once for each file whose Fixer call returned and for no
\* other, whether or not anything was written for it; every "Saved to: <path>"
\* entry names a path that was written and comes directly after the "Fixed:"
\* entry of the file it was written for, and every written path has its
\* entry; so the count the report shows is the successful calls plus the
\* files written: at least the former, at most twice it.
C26_FixedAndSaved ==
    C26_FixRan =>
      LET fa == state.fixes_applied
          ok == ops.fixer_ok
          saved == { i \in 1..Len(fa) : C26_IsSaved(fa[i]) }
      IN  /\ \A k \in 1..Len(state.files) :
                Count(fa, <<"Fixed: ">> \o state.files[k])
                  = Count(ok, state.files[k])
          /\ \A i \in saved :
                /\ i > 1
                /\ \E k \in 1..Len(state.files) :
                      /\ fa[i - 1] = <<"Fixed: ">> \o state.files[k]
                      /\ fa[i] = <<"Saved to: ">> \o SandboxPath(state, state.files[k])
                /\ SubSeq(fa[i], 2, Len(fa[i])) \in C26_Written
          /\ Cardinality(saved) = Cardinality(C26_Written)
          /\ Len(fa) = Len(ok) + Cardinality(saved)
          /\ Len(ops.phases) >= 5 =>
                /\ ops.report.fixes = Len(fa)
                /\ ops.report.fixes >= Len(ok)
                /\ ops.report.fixes <= 2 * Len(ok)

\* C26 witness: of two files the first was fixed and saved, the second was
\* fixed but nothing was written for it; the report showed 3 corrections for
\* one file written.
C26_Witness ==
    /\ C26_FixRan
    /\ Len(state.files) = 2
    /\ ops.fixer_ok = state.files
    /\ Cardinality(C26_Written) = 1
    /\ Len(state.fixes_applied) = 3
    /\ C26_IsSaved(state.fixes_applied[2])
    /\ ops.report.fixes = 3

\* C27 (as claimed): the test files one generate stage writes have pairwise
\* distinct paths, whatever the files' directories, and so have the entries of
\* tests_generated it returns.
C27_DistinctTestPaths ==
    /\ \A i, j \in 1..Len(ops.writes) :
         (i # j /\ ops.writes[i].stage = "generate"
                /\ ops.writes[j].stage = "generate")
           => ops.writes[i].path # ops.writes[j].path
    /\ (Len(ops.phases) >= 4 /\ ops.phases[4] = GENERATED) =>
         \A i, j \in 1..Len(state.tests_generated) :
           i # j => state.tests_generated[i] # state.tests_generated[j]

=============================================================================
